---- MODULE Spec2Model ----
(***************************************************************************)
(* Model of the regex conformance-test harness: bin/run_tests.py (the      *)
(* RegexTestRunner and its main) and bin/validate_suite.py (the schema     *)
(* validator and its main).                                                *)
(*                                                                         *)
(* Text is a sequence of one-character strings.  Python's None is the      *)
(* record NoneV; an optional text is opt(s) or NoneV.                      *)
(***************************************************************************)
EXTENDS Integers, Sequences, FiniteSets, TLC

VARIABLES
    \* ---- run_tests.py: the environment and main's position
    dirExists,      \* tests_dir.exists()
    mode,           \* "all" (run_suite) or "single" (-f FILE)
    fileExists,     \* test_file.exists(), single mode
    nFiles,         \* len(test_files): the number of suite files discovered
    file,           \* test_cases: what json.load read from the file being run
    testsLoaded,    \* the number of Tests in the files loaded so far
    pc,             \* main's position
    fi, ci, ti,     \* indices of the file, Case and Test about to run
    \* ---- RegexTestRunner fields
    total_tests, passed_tests, failed_tests, skipped_tests,
    \* ---- locals of run_test_file / run_suite / main
    file_passed, passed_files, failed_files, exitCode,
    last,           \* the last run_test call: its arguments and what it did
    \* ---- the comparator on its own
    cmpActual, cmpExpected, cmpResult,
    \* ---- validate_suite.py
    vDirExists,     \* tests_dir.exists()
    vN,             \* len(test_files)
    vpc,            \* main's position
    vi,             \* index of the file about to be validated
    vFile,          \* the file validated last (NoneV: none yet)
    vErrors,        \* the errors validate_test_file returned for it
    total_errors, files_with_errors,
    vViolations,    \* the number of violations in the files validated so far
    vExit

runnerVars == <<dirExists, mode, fileExists, nFiles, file, testsLoaded, pc, fi, ci, ti,
                total_tests, passed_tests, failed_tests, skipped_tests,
                file_passed, passed_files, failed_files, exitCode, last>>
cmpVars == <<cmpActual, cmpExpected, cmpResult>>
valVars == <<vDirExists, vN, vpc, vi, vFile, vErrors, total_errors,
             files_with_errors, vViolations, vExit>>
vars == <<runnerVars, cmpVars, valVars>>

-----------------------------------------------------------------------------
(* Values *)

NoneV == [none |-> TRUE]
opt(s) == [some |-> s]

RECURSIVE SumSeq(_)
SumSeq(q) == IF q = <<>> THEN 0 ELSE Head(q) + SumSeq(Tail(q))

Max0(n) == IF n < 0 THEN 0 ELSE n

-----------------------------------------------------------------------------
(* The regular-expression capability (Python's re), on the pattern syntax  *)
(* the suites of this model use: literals, [sets], one level of (groups),  *)
(* the quantifiers + ? {n}, and the IGNORECASE and VERBOSE options.        *)

Digits == {"0", "1", "2", "3", "4", "5", "6", "7", "8", "9"}

DigitVal(c) ==
    CASE c = "0" -> 0 [] c = "1" -> 1 [] c = "2" -> 2 [] c = "3" -> 3
      [] c = "4" -> 4 [] c = "5" -> 5 [] c = "6" -> 6 [] c = "7" -> 7
      [] c = "8" -> 8 [] OTHER -> 9

\* str.lower() on the letters of the model's alphabet
Lower(c) == CASE c = "A" -> "a" [] c = "B" -> "b" [] OTHER -> c

\* The number of decimal digits from which a repeat count is certainly
\* >= MAXREPEAT (4294967295 has 10 digits).
OverflowDigits == 11

\* index of the first c in p at or after i, 0 if none
RECURSIVE IndexFrom(_, _, _)
IndexFrom(p, c, i) ==
    IF i > Len(p) THEN 0
    ELSE IF p[i] = c THEN i ELSE IndexFrom(p, c, i + 1)

\* the end of the run of digits starting at i (i - 1 if p[i] is no digit)
RECURSIVE DigitsEnd(_, _)
DigitsEnd(p, i) ==
    IF i <= Len(p) /\ p[i] \in Digits THEN DigitsEnd(p, i + 1) ELSE i - 1

ParseInit ==
    [nodes |-> <<>>, groups |-> <<>>, open |-> 0, prev |-> "none", status |-> "ok"]

WithLastNode(acc, min, max) ==
    [acc EXCEPT !.nodes[Len(acc.nodes)].min = min,
                !.nodes[Len(acc.nodes)].max = max,
                !.prev = "quant"]

\* sre_parse: one pass over the pattern, left to right, the first error ends it.
\* status: "ok"; "error" (re.error); "overflow" (OverflowError); "unsupported"
\* (syntax outside the subset, which no pattern of the model uses).
RECURSIVE Parse(_, _, _, _)
Parse(p, i, verbose, acc) ==
    IF acc.status # "ok" THEN acc
    ELSE IF i > Len(p) THEN
        IF acc.open # 0 THEN [acc EXCEPT !.status = "error"]   \* missing )
        ELSE acc
    ELSE LET c == p[i] IN
        IF verbose /\ c = " " THEN Parse(p, i + 1, verbose, acc)
        ELSE IF c = "(" THEN
            IF acc.open # 0 THEN [acc EXCEPT !.status = "unsupported"]
            ELSE Parse(p, i + 1, verbose,
                       [acc EXCEPT !.open = Len(acc.nodes) + 1, !.prev = "open"])
        ELSE IF c = ")" THEN
            IF acc.open = 0 THEN [acc EXCEPT !.status = "error"]  \* unbalanced )
            ELSE Parse(p, i + 1, verbose,
                       [acc EXCEPT !.groups = Append(acc.groups,
                                        [from |-> acc.open, to |-> Len(acc.nodes),
                                         optional |-> FALSE]),
                                   !.open = 0, !.prev = "group"])
        ELSE IF c = "[" THEN
            LET k == IndexFrom(p, "]", i + 2) IN
            IF k = 0 THEN [acc EXCEPT !.status = "error"]     \* unterminated set
            ELSE Parse(p, k + 1, verbose,
                       [acc EXCEPT !.nodes = Append(acc.nodes,
                                        [set |-> {p[j] : j \in (i + 1)..(k - 1)},
                                         min |-> 1, max |-> 1]),
                                   !.prev = "atom"])
        ELSE IF c \in {"+", "?"} THEN
            IF acc.prev \in {"none", "open"} THEN
                [acc EXCEPT !.status = "error"]               \* nothing to repeat
            ELSE IF acc.prev = "quant" THEN [acc EXCEPT !.status = "unsupported"]
            ELSE IF acc.prev = "group" THEN
                IF c = "?" THEN
                    Parse(p, i + 1, verbose,
                          [acc EXCEPT !.groups[Len(acc.groups)].optional = TRUE,
                                      !.prev = "quant"])
                ELSE [acc EXCEPT !.status = "unsupported"]
            ELSE Parse(p, i + 1, verbose,
                       IF c = "+" THEN WithLastNode(acc, 1, -1)
                       ELSE WithLastNode(acc, 0, 1))
        ELSE IF c = "{" /\ DigitsEnd(p, i + 1) >= i + 1
                        /\ DigitsEnd(p, i + 1) < Len(p)
                        /\ p[DigitsEnd(p, i + 1) + 1] = "}" THEN
            LET e == DigitsEnd(p, i + 1)
                n == e - i
            IN  IF n >= OverflowDigits THEN
                    [acc EXCEPT !.status = "overflow"]        \* OverflowError
                ELSE IF acc.prev \in {"none", "open"} THEN
                    [acc EXCEPT !.status = "error"]           \* nothing to repeat
                ELSE IF n > 1 \/ acc.prev # "atom" THEN
                    [acc EXCEPT !.status = "unsupported"]
                ELSE Parse(p, e + 2, verbose,
                           WithLastNode(acc, DigitVal(p[i + 1]), DigitVal(p[i + 1])))
        ELSE Parse(p, i + 1, verbose,
                   [acc EXCEPT !.nodes = Append(acc.nodes,
                                    [set |-> {c}, min |-> 1, max |-> 1]),
                               !.prev = "atom"])

InSet(c, set, ignorecase) ==
    IF ignorecase THEN Lower(c) \in {Lower(x) : x \in set} ELSE c \in set

\* the length of the longest run of characters of `set` in s from offset pos,
\* at most `limit` long (limit < 0: unlimited)
RECURSIVE RunLen(_, _, _, _, _)
RunLen(s, pos, set, ignorecase, limit) ==
    IF limit = 0 \/ pos >= Len(s) \/ ~InSet(s[pos + 1], set, ignorecase) THEN 0
    ELSE 1 + RunLen(s, pos + 1, set, ignorecase, limit - 1)

NoMatch == [ok |-> FALSE, lens |-> <<>>]

OptionalGroupAt(pat, i) ==
    {g \in 1..Len(pat.groups) :
        /\ pat.groups[g].optional
        /\ pat.groups[g].from = i
        /\ pat.groups[g].to >= i}

\* The backtracking matcher: nodes i.. of pat against s from offset pos.
\* lens[j]: the number of characters node i+j-1 consumed, -1 for a node of a
\* group that did not participate.  Greedy: the longest repeat first, an
\* optional group taken before it is skipped.
RECURSIVE MatchFrom(_, _, _, _), TryLen(_, _, _, _, _)
TryLen(pat, s, i, pos, k) ==
    IF k < pat.nodes[i].min THEN NoMatch
    ELSE LET rest == MatchFrom(pat, s, i + 1, pos + k) IN
         IF rest.ok THEN [ok |-> TRUE, lens |-> <<k>> \o rest.lens]
         ELSE TryLen(pat, s, i, pos, k - 1)

MatchFrom(pat, s, i, pos) ==
    IF i > Len(pat.nodes) THEN [ok |-> TRUE, lens |-> <<>>]
    ELSE LET n == pat.nodes[i]
             taken == TryLen(pat, s, i, pos,
                             RunLen(s, pos, n.set, pat.ignorecase, n.max))
             gs == OptionalGroupAt(pat, i)
         IN  IF taken.ok \/ gs = {} THEN taken
             ELSE LET g == CHOOSE g \in gs : TRUE
                      to == pat.groups[g].to
                      rest == MatchFrom(pat, s, to + 1, pos)
                  IN  IF rest.ok
                      THEN [ok |-> TRUE,
                            lens |-> [j \in 1..(to - i + 1) |-> -1] \o rest.lens]
                      ELSE NoMatch

\* offset in s at which node j starts, for a match begun at `start`
NodeOffset(start, lens, j) ==
    start + SumSeq([k \in 1..(j - 1) |-> Max0(lens[k])])

\* re.Match: start(), end(), group(0), groups()
MatchObject(pat, s, start, lens) ==
    LET end == NodeOffset(start, lens, Len(lens) + 1) IN
    [start |-> start,
     end |-> end,
     group0 |-> SubSeq(s, start + 1, end),
     groups |-> [g \in 1..Len(pat.groups) |->
                   LET from == pat.groups[g].from
                       to == pat.groups[g].to
                   IN  IF from <= to /\ lens[from] = -1 THEN NoneV
                       ELSE opt(SubSeq(s, NodeOffset(start, lens, from) + 1,
                                       NodeOffset(start, lens, to + 1)))]]

\* Pattern.search from offset `from`: the match at the leftmost offset that
\* has one, or NoneV
RECURSIVE SearchFrom(_, _, _)
SearchFrom(pat, s, from) ==
    IF from > Len(s) THEN NoneV
    ELSE LET r == MatchFrom(pat, s, 1, from) IN
         IF r.ok THEN MatchObject(pat, s, from, r.lens)
         ELSE SearchFrom(pat, s, from + 1)

search(pat, s) == SearchFrom(pat, s, 0)

\* Pattern.finditer: search, then search again from the end of the match found
\* (one further on after an empty match), until there is none
RECURSIVE FinditerFrom(_, _, _)
FinditerFrom(pat, s, from) ==
    LET m == SearchFrom(pat, s, from) IN
    IF m = NoneV THEN <<>>
    ELSE <<m>> \o FinditerFrom(pat, s, IF m.end > m.start THEN m.end ELSE m.end + 1)

finditer(pat, s) == FinditerFrom(pat, s, 0)

\* re.compile(pattern, flag_value): a compiled pattern, or what it raises
re_compile(pattern, flag_value) ==
    LET a == Parse(pattern, 1, "VERBOSE" \in flag_value, ParseInit) IN
    IF a.status = "ok"
    THEN [kind |-> "pattern", nodes |-> a.nodes, groups |-> a.groups,
          ignorecase |-> "IGNORECASE" \in flag_value]
    ELSE IF a.status = "error" THEN [kind |-> "re.error"]
    ELSE IF a.status = "overflow" THEN [kind |-> "OverflowError"]
    ELSE [kind |-> "unsupported"]

-----------------------------------------------------------------------------
(* RegexTestRunner *)

Range(q) == {q[k] : k \in 1..Len(q)}

\* TestResult(passed, message); the message is kept as its parts
TestResult(passed, message) == [passed |-> passed, message |-> message]

\* compile_pattern's flag_value: the options handed to re.compile
FlagValue(flags) ==
    (IF "i" \in Range(flags) THEN {"IGNORECASE"} ELSE {})
    \cup (IF "m" \in Range(flags) THEN {"MULTILINE"} ELSE {})
    \cup (IF "s" \in Range(flags) THEN {"DOTALL"} ELSE {})
    \cup (IF "x" \in Range(flags) THEN {"VERBOSE"} ELSE {})
    \cup (IF "u" \in Range(flags) THEN {"UNICODE"} ELSE {})

\* compile_pattern: the compiled pattern; NoneV when re.compile raises
\* re.error; any other exception is not caught and leaves the method
compile_pattern(pattern, flags) ==
    LET c == re_compile(pattern, FlagValue(flags)) IN
    IF c.kind = "pattern" THEN c
    ELSE IF c.kind = "re.error" THEN NoneV
    ELSE [raised |-> c.kind]

Raised(x) == "raised" \in DOMAIN x

\* find_matches that searches once whatever the flag says
find_matches_firstOnly(pattern, input_str, global_flag) ==
    LET match == search(pattern, input_str) IN
    IF match # NoneV THEN <<match>> ELSE <<>>

find_matches(pattern, input_str, global_flag) ==
    IF global_flag THEN finditer(pattern, input_str)
    ELSE LET match == search(pattern, input_str) IN
         IF match # NoneV THEN <<match>> ELSE <<>>

\* the for loop of compare_match over zip(expected_groups, actual_groups)
RECURSIVE CompareGroups(_, _, _)
CompareGroups(expected_groups, actual_groups, i) ==
    IF i > Len(expected_groups) \/ i > Len(actual_groups) THEN TestResult(TRUE, <<>>)
    ELSE IF expected_groups[i] # actual_groups[i]
    THEN TestResult(FALSE, <<"Group mismatch", i, expected_groups[i], actual_groups[i]>>)
    ELSE CompareGroups(expected_groups, actual_groups, i + 1)

\* compare_match with the end checked before the start
compare_match_endFirst(actual, expected) ==
    IF actual.end # expected.end
    THEN TestResult(FALSE, <<"End position mismatch", expected.end, actual.end>>)
    ELSE IF actual.start # expected.start
    THEN TestResult(FALSE, <<"Start position mismatch", expected.start, actual.start>>)
    ELSE IF actual.group0 # expected.match
    THEN TestResult(FALSE, <<"Match text mismatch", expected.match, actual.group0>>)
    ELSE IF "groups" \in DOMAIN expected
    THEN IF Len(actual.groups) # Len(expected.groups)
         THEN TestResult(FALSE, <<"Group count mismatch",
                                  Len(expected.groups), Len(actual.groups)>>)
         ELSE CompareGroups(expected.groups, actual.groups, 1)
    ELSE TestResult(TRUE, <<>>)

\* compare_match with expected.get("groups", []) in place of the key test
compare_match_defaultGroups(actual, expected) ==
    LET expected_groups ==
            IF "groups" \in DOMAIN expected THEN expected.groups ELSE <<>>
    IN  IF actual.start # expected.start
        THEN TestResult(FALSE, <<"Start position mismatch", expected.start, actual.start>>)
        ELSE IF actual.end # expected.end
        THEN TestResult(FALSE, <<"End position mismatch", expected.end, actual.end>>)
        ELSE IF actual.group0 # expected.match
        THEN TestResult(FALSE, <<"Match text mismatch", expected.match, actual.group0>>)
        ELSE IF Len(actual.groups) # Len(expected_groups)
        THEN TestResult(FALSE, <<"Group count mismatch",
                                 Len(expected_groups), Len(actual.groups)>>)
        ELSE CompareGroups(expected_groups, actual.groups, 1)

compare_match(actual, expected) ==
    IF actual.start # expected.start
    THEN TestResult(FALSE, <<"Start position mismatch", expected.start, actual.start>>)
    ELSE IF actual.end # expected.end
    THEN TestResult(FALSE, <<"End position mismatch", expected.end, actual.end>>)
    ELSE IF actual.group0 # expected.match
    THEN TestResult(FALSE, <<"Match text mismatch", expected.match, actual.group0>>)
    ELSE IF "groups" \in DOMAIN expected
    THEN IF Len(actual.groups) # Len(expected.groups)
         THEN TestResult(FALSE, <<"Group count mismatch",
                                  Len(expected.groups), Len(actual.groups)>>)
         ELSE CompareGroups(expected.groups, actual.groups, 1)
    ELSE TestResult(TRUE, <<>>)

\* the loop over the pairs that does not return at the first mismatch: the
\* last mismatching pair decides
RECURSIVE CompareAll_keepGoing(_, _, _)
CompareAll_keepGoing(actual_matches, expected_matches, i) ==
    IF i >= Len(actual_matches) \/ i >= Len(expected_matches)
    THEN [result |-> TestResult(TRUE, <<>>), compared |-> i]
    ELSE LET result == compare_match(actual_matches[i + 1], expected_matches[i + 1])
             rest == CompareAll_keepGoing(actual_matches, expected_matches, i + 1)
         IN  IF ~rest.result.passed \/ result.passed THEN rest
             ELSE [result |-> TestResult(FALSE, <<"Match", i, result.message>>),
                   compared |-> rest.compared]

\* the for loop of run_test over zip(actual_matches, expected_matches), from
\* the pair at index i (0-based, as enumerate counts); compared: the number of
\* compare_match calls made
RECURSIVE CompareAll(_, _, _)
CompareAll(actual_matches, expected_matches, i) ==
    IF i >= Len(actual_matches) \/ i >= Len(expected_matches)
    THEN [result |-> TestResult(TRUE, <<>>), compared |-> i]
    ELSE LET result == compare_match(actual_matches[i + 1], expected_matches[i + 1]) IN
         IF ~result.passed
         THEN [result |-> TestResult(FALSE, <<"Match", i, result.message>>),
               compared |-> i + 1]
         ELSE CompareAll(actual_matches, expected_matches, i + 1)

CaseFlags(test_case) ==
    IF "flags" \in DOMAIN test_case THEN test_case.flags ELSE <<>>

Runner(total, passed, failed, skipped) ==
    [total_tests |-> total, passed_tests |-> passed,
     failed_tests |-> failed, skipped_tests |-> skipped]

\* self.passed_tests += 1; return TestResult(True, message)
Pass(r, message) ==
    [runner |-> [r EXCEPT !.passed_tests = r.passed_tests + 1],
     result |-> TestResult(TRUE, message)]

\* return TestResult(False, message) with failed_tests left as it was
Fail_noCount(r, message) ==
    [runner |-> r, result |-> TestResult(FALSE, message)]

\* self.failed_tests += 1; return TestResult(False, message)
Fail(r, message) ==
    [runner |-> [r EXCEPT !.failed_tests = r.failed_tests + 1],
     result |-> TestResult(FALSE, message)]

\* What a run_test call did: the runner's fields afterwards, the TestResult
\* returned (NoneV when an exception left the method: raised), and what was
\* called on the way: searched (find_matches ran), compared (the number of
\* compare_match calls), actual (the matches found).
Returned(ret, searched, compared, actual) ==
    [runner |-> ret.runner, result |-> ret.result, raised |-> FALSE,
     searched |-> searched, compared |-> compared, actual |-> actual]

run_test(r, test_case, test) ==
    LET r1 == [r EXCEPT !.total_tests = r.total_tests + 1]
        flags == CaseFlags(test_case)
        expected_matches == test.matches
        pattern == compile_pattern(test_case.pattern, flags)
    IN  IF Raised(pattern)
        THEN [runner |-> r1, result |-> NoneV, raised |-> TRUE,
              searched |-> FALSE, compared |-> 0, actual |-> <<>>]
        ELSE IF pattern = NoneV
        THEN IF Len(expected_matches) = 0
             THEN Returned(Pass(r1, <<"Invalid pattern correctly rejected">>),
                           FALSE, 0, <<>>)
             ELSE Returned(Fail(r1, <<"Failed to compile pattern">>), FALSE, 0, <<>>)
        ELSE LET global_flag == "g" \in Range(flags)
                 actual_matches == find_matches(pattern, test.input, global_flag)
             IN  IF Len(actual_matches) # Len(expected_matches)
                 THEN Returned(Fail(r1, <<"Match count mismatch",
                                          Len(expected_matches), Len(actual_matches)>>),
                               TRUE, 0, actual_matches)
                 ELSE LET c == CompareAll(actual_matches, expected_matches, 0) IN
                      Returned(IF c.result.passed THEN Pass(r1, <<>>)
                               ELSE Fail(r1, c.result.message),
                               TRUE, c.compared, actual_matches)

-----------------------------------------------------------------------------
(* Suite data: the texts, Cases and files the runs below are drawn from *)

P_aPlus == <<"a", "+">>
P_open == <<"(">>
P_close == <<"a", ")">>
P_plusFirst == <<"+", "a">>
P_set == <<"[", "a">>
P_overflow == <<"a", "{", "9", "9", "9", "9", "9", "9", "9", "9", "9", "9", "9", "}">>
P_groups == <<"(", "a", ")", "(", "b", ")", "?">>
P_hex == <<"@", "[", "h", "e", "x", ":", "4", "1", "]", "@", "[", "h", "e", "x", ":", "4", "2", "]">>
P_ab == <<"a", "b">>
P_aSpaceB == <<"a", " ", "b">>

I_baaab == <<"b", "a", "a", "a", "b">>
I_aaba == <<"a", "a", " ", "b", "a">>
I_ab == <<"a", "b">>
I_a == <<"a">>
I_AB == <<"A", "B">>
I_hex == <<"@", "[", "h", "e", "x", ":", "4", "1", "]", "@", "[", "h", "e", "x", ":", "4", "2", "]">>

S_aaa == <<"a", "a", "a">>
S_aa == <<"a", "a">>
S_a == <<"a">>
S_b == <<"b">>
S_ab == <<"a", "b">>
S_AB == <<"A", "B">>

\* an Expected Match without / with the "groups" key
EM(start, end, match) == [start |-> start, end |-> end, match |-> match]
EMG(start, end, match, groups) ==
    [start |-> start, end |-> end, match |-> match, groups |-> groups]

Test(input, matches) == [input |-> input, matches |-> matches]
Case(pattern, flags, tests) == [pattern |-> pattern, flags |-> flags, tests |-> tests]
CaseNoFlags(pattern, tests) == [pattern |-> pattern, tests |-> tests]

\* scenario 1 (no "flags" key): one Test, which passes
K_first == CaseNoFlags(P_aPlus, <<Test(I_baaab, <<EM(1, 4, S_aaa)>>)>>)
\* scenario 2, then the same input with one expectation too few
K_global == Case(P_aPlus, <<"g">>,
                 <<Test(I_aaba, <<EM(0, 2, S_aa), EM(4, 5, S_a)>>),
                   Test(I_aaba, <<EM(0, 2, S_aa)>>)>>)
\* scenario 5: a pattern that does not compile
K_invalid == Case(P_open, <<>>,
                  <<Test(I_a, <<>>), Test(I_a, <<EM(0, 1, S_a)>>)>>)
\* a repeat count beyond the engine's limit, with and without an expectation
K_overflow == Case(P_overflow, <<>>, <<Test(I_a, <<EM(0, 1, S_a)>>), Test(I_a, <<>>)>>)
\* a Case without Tests (the validator rejects it, the runner accepts it)
K_empty == Case(P_ab, <<>>, <<>>)

RunnerCases == {K_first, K_global, K_invalid, K_overflow, K_empty}

MaxCases == 2
MaxFiles == 2

SeqsUpTo(S, n) == UNION {[1..k -> S] : k \in 0..n}

\* what a suite file of a run may hold
RunnerFiles == SeqsUpTo(RunnerCases, MaxCases)

RECURSIVE TestsInFile(_)
TestsInFile(f) ==
    IF f = <<>> THEN 0 ELSE Len(Head(f).tests) + TestsInFile(Tail(f))

-----------------------------------------------------------------------------
(* run_tests.py: main, run_suite, run_test_file *)

CmpIdle == cmpActual = NoneV /\ cmpExpected = NoneV /\ cmpResult = NoneV
ValIdle ==
    /\ vDirExists = TRUE /\ vN = 0 /\ vpc = "idle" /\ vi = 1
    /\ vFile = NoneV /\ vErrors = <<>> /\ vViolations = 0
    /\ total_errors = 0 /\ files_with_errors = 0 /\ vExit = -1

\* RegexTestRunner.__init__ and the locals, before main runs
RunnerFresh ==
    /\ pc = "main" /\ fi = 1 /\ ci = 1 /\ ti = 1
    /\ total_tests = 0 /\ passed_tests = 0 /\ failed_tests = 0 /\ skipped_tests = 0
    /\ file_passed = TRUE /\ passed_files = 0 /\ failed_files = 0
    /\ exitCode = -1 /\ last = NoneV
    /\ file = <<>> /\ testsLoaded = 0

Init ==
    /\ dirExists \in BOOLEAN
    /\ mode \in {"all", "single"}
    /\ fileExists \in BOOLEAN
    /\ nFiles \in 0..MaxFiles
    /\ mode = "single" => nFiles = 1
    /\ RunnerFresh
    /\ CmpIdle
    /\ ValIdle

\* the position of the first Test at or after (c, t) in file f: the two nested
\* for loops skip a Case whose Test list is exhausted or empty
RECURSIVE NextPos(_, _, _)
NextPos(f, c, t) ==
    IF c > Len(f) THEN <<c, 1>>
    ELSE IF t > Len(f[c].tests) THEN NextPos(f, c + 1, 1)
    ELSE <<c, t>>

\* main: the tests directory is missing
MainNoTestsDir ==
    /\ pc = "main" /\ ~dirExists
    /\ pc' = "exit" /\ exitCode' = 1
    /\ UNCHANGED <<cmpVars, valVars>>
    /\ UNCHANGED <<dirExists, mode, fileExists, nFiles, file, testsLoaded, fi, ci, ti,
                   total_tests, passed_tests, failed_tests, skipped_tests,
                   file_passed, passed_files, failed_files, last>>

\* main, -f FILE: the named file is missing
MainFileNotFound ==
    /\ pc = "main" /\ dirExists /\ mode = "single" /\ ~fileExists
    /\ pc' = "exit" /\ exitCode' = 1
    /\ UNCHANGED <<cmpVars, valVars>>
    /\ UNCHANGED <<dirExists, mode, fileExists, nFiles, file, testsLoaded, fi, ci, ti,
                   total_tests, passed_tests, failed_tests, skipped_tests,
                   file_passed, passed_files, failed_files, last>>

\* main, -f FILE: runner.run_test_file(test_file, verbose=True)
MainSingle ==
    /\ pc = "main" /\ dirExists /\ mode = "single" /\ fileExists
    /\ pc' = "run_test_file"
    /\ UNCHANGED <<cmpVars, valVars>>
    /\ UNCHANGED <<dirExists, mode, fileExists, nFiles, file, testsLoaded, fi, ci, ti,
                   total_tests, passed_tests, failed_tests, skipped_tests,
                   file_passed, passed_files, failed_files, exitCode, last>>

\* main: runner.run_suite(tests_dir), up to the for loop over the files
MainAll ==
    /\ pc = "main" /\ dirExists /\ mode = "all"
    /\ pc' = "run_suite" /\ fi' = 1 /\ passed_files' = 0 /\ failed_files' = 0
    /\ UNCHANGED <<cmpVars, valVars>>
    /\ UNCHANGED <<dirExists, mode, fileExists, nFiles, file, testsLoaded, ci, ti,
                   total_tests, passed_tests, failed_tests, skipped_tests,
                   file_passed, exitCode, last>>

\* run_suite: the next file of the for loop
SuiteNextFile ==
    /\ pc = "run_suite" /\ fi <= nFiles
    /\ pc' = "run_test_file"
    /\ UNCHANGED <<cmpVars, valVars>>
    /\ UNCHANGED <<dirExists, mode, fileExists, nFiles, file, testsLoaded, fi, ci, ti,
                   total_tests, passed_tests, failed_tests, skipped_tests,
                   file_passed, passed_files, failed_files, exitCode, last>>

\* run_test_file: json.load reads the file's Cases, file_passed = True, and
\* the loops are entered
OpenFile ==
    /\ pc = "run_test_file"
    /\ \E test_cases \in RunnerFiles :
        /\ file' = test_cases
        /\ testsLoaded' = testsLoaded + TestsInFile(test_cases)
        /\ ci' = NextPos(test_cases, 1, 1)[1]
        /\ ti' = NextPos(test_cases, 1, 1)[2]
    /\ pc' = "in_file" /\ file_passed' = TRUE
    /\ UNCHANGED <<cmpVars, valVars>>
    /\ UNCHANGED <<dirExists, mode, fileExists, nFiles, fi, total_tests,
                   passed_tests, failed_tests, skipped_tests,
                   passed_files, failed_files, exitCode, last>>

\* what the body of run_test_file's inner loop does with run_test's result
FilePassedAfter(was, result) == IF ~result.passed THEN FALSE ELSE was

\* the call run_test_file makes, with what it was made on
Call(r, test_case, test) ==
    [test_case |-> test_case, test |-> test, before |-> r,
     out |-> run_test(r, test_case, test)]

\* run_test_file: one iteration of the inner loop, self.run_test(test_case, test);
\* an exception run_test does not catch ends the program with a traceback
RunTest ==
    /\ pc = "in_file" /\ ci <= Len(file)
    /\ LET call == Call(Runner(total_tests, passed_tests, failed_tests,
                               skipped_tests), file[ci], file[ci].tests[ti])
           next == NextPos(file, ci, ti + 1)
       IN  /\ total_tests' = call.out.runner.total_tests
           /\ passed_tests' = call.out.runner.passed_tests
           /\ failed_tests' = call.out.runner.failed_tests
           /\ skipped_tests' = call.out.runner.skipped_tests
           /\ last' = call
           /\ IF call.out.raised
              THEN /\ pc' = "crashed" /\ exitCode' = 1
                   /\ UNCHANGED <<ci, ti, file_passed>>
              ELSE /\ file_passed' = FilePassedAfter(file_passed, call.out.result)
                   /\ ci' = next[1] /\ ti' = next[2]
                   /\ UNCHANGED <<pc, exitCode>>
    /\ UNCHANGED <<cmpVars, valVars>>
    /\ UNCHANGED <<dirExists, mode, fileExists, nFiles, file, testsLoaded, fi,
                   passed_files, failed_files>>

\* the exit code main returns for a success flag: 0 if success else 1
ExitFor(success) == IF success THEN 0 ELSE 1

\* run_test_file returns file_passed: to main (-f FILE), which exits, or to
\* run_suite, which counts the file and goes on
ReturnFile ==
    /\ pc = "in_file" /\ ci > Len(file)
    /\ IF mode = "single"
       THEN /\ pc' = "exit" /\ exitCode' = ExitFor(file_passed)
            /\ UNCHANGED <<fi, passed_files, failed_files>>
       ELSE /\ pc' = "run_suite" /\ fi' = fi + 1
            /\ passed_files' = IF file_passed THEN passed_files + 1 ELSE passed_files
            /\ failed_files' = IF file_passed THEN failed_files ELSE failed_files + 1
            /\ UNCHANGED exitCode
    /\ UNCHANGED <<cmpVars, valVars>>
    /\ UNCHANGED <<dirExists, mode, fileExists, nFiles, file, testsLoaded, ci, ti,
                   total_tests, passed_tests, failed_tests, skipped_tests,
                   file_passed, last>>

\* run_suite after the loop: the totals are printed, the percentage divides
\* by total_tests (ZeroDivisionError when no Test ran), and
\* self.failed_tests == 0 goes back to main
SuiteSummary ==
    /\ pc = "run_suite" /\ fi > nFiles
    /\ IF total_tests = 0
       THEN pc' = "crashed" /\ exitCode' = 1
       ELSE pc' = "exit" /\ exitCode' = ExitFor(failed_tests = 0)
    /\ UNCHANGED <<cmpVars, valVars>>
    /\ UNCHANGED <<dirExists, mode, fileExists, nFiles, file, testsLoaded, fi, ci, ti,
                   total_tests, passed_tests, failed_tests, skipped_tests,
                   file_passed, passed_files, failed_files, last>>

Next ==
    \/ MainNoTestsDir
    \/ MainFileNotFound
    \/ MainSingle
    \/ MainAll
    \/ SuiteNextFile
    \/ OpenFile
    \/ RunTest
    \/ ReturnFile
    \/ SuiteSummary

Spec == Init /\ [][Next]_vars

-----------------------------------------------------------------------------
(* The runner's claims, under Spec *)

\* the program has ended: main returned an exit code, or a traceback ended it
Terminated == pc \in {"exit", "crashed"}

\* no environment-level problem: the tests directory is there, and so is the
\* file named with -f
EnvironmentOk == dirExists /\ (mode = "single" => fileExists)

\* C2 as stated: whatever the suite files hold (no file at all and files
\* with an empty Case list included), run-all mode and run-single-file mode
\* end with exit code 0 if and only if no Test failed, and in single-file
\* mode the exit code taken from file_passed agrees with failed_tests == 0.
C2_ExitZeroIffNoFailure ==
    (Terminated /\ EnvironmentOk) =>
        /\ exitCode = 0 <=> failed_tests = 0
        /\ (mode = "single" /\ pc = "exit") =>
              ExitFor(file_passed) = ExitFor(failed_tests = 0)

\* every Test of every discovered file was handed to run_test
AllTestsExecuted == total_tests = testsLoaded /\ (mode = "all" => fi >= nFiles)

\* C3 as stated: a failed Test never stops the run; after a failing run_test
\* every remaining Test, Case and file is still executed, so that at the end
\* of the run total_tests is the number of Tests in all discovered files.
C3_FailedTestNeverStopsRun ==
    (Terminated /\ failed_tests > 0) => AllTestsExecuted

CountersConsistent ==
    total_tests = passed_tests + failed_tests /\ skipped_tests = 0

\* every run_test call so far has returned
AllCallsCompleted == last = NoneV \/ ~last.out.raised

\* this step is a run_test call that returned a TestResult
RunTestReturned == last' # last /\ ~last'.out.raised

\* what a step does to the counters: a run_test call that returned counts
\* once, under the TestResult's passed flag; a step that is no run_test call
\* leaves the counters alone; no counter decreases
CounterStep ==
    /\ RunTestReturned =>
          /\ total_tests' = total_tests + 1
          /\ skipped_tests' = skipped_tests
          /\ IF last'.out.result.passed
             THEN passed_tests' = passed_tests + 1 /\ failed_tests' = failed_tests
             ELSE failed_tests' = failed_tests + 1 /\ passed_tests' = passed_tests
    /\ (last' = last) =>
          UNCHANGED <<total_tests, passed_tests, failed_tests, skipped_tests>>
    /\ total_tests' >= total_tests /\ passed_tests' >= passed_tests
    /\ failed_tests' >= failed_tests /\ skipped_tests' >= skipped_tests

\* C10: after any sequence of completed run_test calls total_tests =
\* passed_tests + failed_tests and skipped_tests = 0; a completed run_test
\* call adds one to total_tests and one to exactly one of passed_tests and
\* failed_tests, the one the returned TestResult's passed flag names; no
\* other step changes a counter, and no counter ever decreases or is reset
\* between files.
C10_CountersAddUp ==
    /\ [](AllCallsCompleted => CountersConsistent)
    /\ [][CounterStep]_vars

\* in the second file of a run, after a call that returned: the counters
\* carry the passes and the failures of the first file
C10_Witness ==
    /\ mode = "all" /\ fi = 2 /\ pc = "in_file"
    /\ last # NoneV /\ ~last.out.raised
    /\ last.before.total_tests >= 2
    /\ last.before.passed_tests > 0 /\ last.before.failed_tests > 0
    /\ total_tests = last.before.total_tests + 1
    /\ CountersConsistent

-----------------------------------------------------------------------------
(* One run_test call on a fresh runner, over a product of patterns, flags, *)
(* inputs and expectations                                                 *)

TestPatterns ==
    {P_aPlus, P_open, P_close, P_plusFirst, P_set, P_overflow, P_groups, P_hex,
     P_ab, P_aSpaceB}

\* the "flags" texts; NoneV stands for a Case without the key
TestFlags ==
    {NoneV, opt(<<>>), opt(<<"g">>), opt(<<"x", "g">>),
     opt(<<"z", "g", "g">>), opt(<<"i", "i", "q", "m", "s", "u">>)}

TestInputs == {I_baaab, I_aaba, I_ab, I_a, I_AB, I_hex}

ExpectedPool ==
    {EM(1, 4, S_aaa), EM(0, 2, S_aa), EM(4, 5, S_a), EM(0, 2, S_ab), EM(0, 2, S_AB),
     EMG(0, 2, S_ab, <<opt(S_a), opt(S_b)>>),
     EMG(0, 1, S_a, <<opt(S_a), NoneV>>),
     EMG(0, 1, S_a, <<opt(S_a), opt(S_b)>>)}

MaxMatches == 2

InitTest ==
    /\ dirExists = TRUE /\ mode = "single" /\ fileExists = TRUE /\ nFiles = 1
    /\ \E p \in TestPatterns, f \in TestFlags, input \in TestInputs,
          matches \in SeqsUpTo(ExpectedPool, MaxMatches) :
          file = <<IF f = NoneV THEN CaseNoFlags(p, <<Test(input, matches)>>)
                   ELSE Case(p, f.some, <<Test(input, matches)>>)>>
    /\ testsLoaded = 1
    /\ pc = "call" /\ fi = 1 /\ ci = 1 /\ ti = 1
    /\ total_tests = 0 /\ passed_tests = 0 /\ failed_tests = 0 /\ skipped_tests = 0
    /\ file_passed = TRUE /\ passed_files = 0 /\ failed_files = 0
    /\ exitCode = -1 /\ last = NoneV
    /\ CmpIdle
    /\ ValIdle

\* runner.run_test(test_case, test)
CallRunTest ==
    /\ pc = "call"
    /\ LET call == Call(Runner(total_tests, passed_tests, failed_tests,
                               skipped_tests), file[1], file[1].tests[1])
       IN  /\ total_tests' = call.out.runner.total_tests
           /\ passed_tests' = call.out.runner.passed_tests
           /\ failed_tests' = call.out.runner.failed_tests
           /\ skipped_tests' = call.out.runner.skipped_tests
           /\ last' = call
           /\ pc' = IF call.out.raised THEN "raised" ELSE "returned"
    /\ UNCHANGED <<cmpVars, valVars>>
    /\ UNCHANGED <<dirExists, mode, fileExists, nFiles, file, testsLoaded, fi, ci, ti,
                   file_passed, passed_files, failed_files, exitCode>>

NextTest == CallRunTest

SpecTest == InitTest /\ [][NextTest]_vars

-----------------------------------------------------------------------------
(* One compare_match call, over a product of actual matches and            *)
(* expectations                                                            *)

MaxPos == 2
MaxGroups == 2

CmpTexts == {<<>>, S_a, S_b, S_ab, S_aa}
GroupValues == {NoneV, opt(<<>>), opt(S_a)}
GroupLists == SeqsUpTo(GroupValues, MaxGroups)

\* what the engine may hand over: 0 <= start <= end, the text end - start long
ActualMatches ==
    {[start |-> a, end |-> b, group0 |-> t, groups |-> g] :
        a \in 0..MaxPos, b \in 0..MaxPos, t \in CmpTexts, g \in GroupLists}

ValidActual(m) == m.start <= m.end /\ Len(m.group0) = m.end - m.start

ExpectedMatches ==
    {EM(a, b, t) : a \in 0..MaxPos, b \in 0..MaxPos, t \in {S_a, S_b, S_ab}}
    \cup {EMG(a, b, t, g) : a \in 0..MaxPos, b \in 0..MaxPos, t \in {S_a, S_b, S_ab},
                            g \in GroupLists}

InitCmp ==
    /\ cmpActual \in {m \in ActualMatches : ValidActual(m)}
    /\ cmpExpected \in {e \in ExpectedMatches : e.start <= e.end}
    /\ cmpResult = NoneV
    /\ ValIdle
    /\ dirExists = TRUE /\ mode = "all" /\ fileExists = TRUE /\ nFiles = 0
    /\ file = <<>> /\ testsLoaded = 0
    /\ pc = "idle" /\ fi = 1 /\ ci = 1 /\ ti = 1
    /\ total_tests = 0 /\ passed_tests = 0 /\ failed_tests = 0 /\ skipped_tests = 0
    /\ file_passed = TRUE /\ passed_files = 0 /\ failed_files = 0
    /\ exitCode = -1 /\ last = NoneV

\* self.compare_match(actual, expected)
CallCompare ==
    /\ cmpResult = NoneV
    /\ cmpResult' = compare_match(cmpActual, cmpExpected)
    /\ UNCHANGED <<cmpActual, cmpExpected, runnerVars, valVars>>

NextCmp == CallCompare

SpecCmp == InitCmp /\ [][NextCmp]_vars

-----------------------------------------------------------------------------
(* The comparator's claims, under SpecCmp *)

MinOf(S) == CHOOSE x \in S : \A y \in S : x <= y

HasGroups(expected) == "groups" \in DOMAIN expected

\* The fields in which actual and expected differ, by their place in the
\* order: 1 start, 2 end, 3 matched text, 4 group count, 4 + i group i.
DifferingFields(actual, expected) ==
    (IF actual.start # expected.start THEN {1} ELSE {})
    \cup (IF actual.end # expected.end THEN {2} ELSE {})
    \cup (IF actual.group0 # expected.match THEN {3} ELSE {})
    \cup (IF HasGroups(expected)
          THEN (IF Len(actual.groups) # Len(expected.groups) THEN {4} ELSE {})
               \cup {4 + i : i \in {j \in 1..Len(actual.groups) :
                                      /\ j <= Len(expected.groups)
                                      /\ actual.groups[j] # expected.groups[j]}}
          ELSE {})

\* the diagnostic that names the field of place k
DiagnosticOf(k, actual, expected) ==
    CASE k = 1 -> <<"Start position mismatch", expected.start, actual.start>>
      [] k = 2 -> <<"End position mismatch", expected.end, actual.end>>
      [] k = 3 -> <<"Match text mismatch", expected.match, actual.group0>>
      [] k = 4 -> <<"Group count mismatch", Len(expected.groups), Len(actual.groups)>>
      [] OTHER -> <<"Group mismatch", k - 4, expected.groups[k - 4], actual.groups[k - 4]>>

\* C4: compare_match passes exactly when no field differs, and otherwise its
\* diagnostic names the earliest differing field in the order start, end,
\* matched text, group count, groups by position - and only that one.
C4_EarliestDifferingField ==
    cmpResult # NoneV =>
        LET D == DifferingFields(cmpActual, cmpExpected) IN
        IF D = {} THEN cmpResult = TestResult(TRUE, <<>>)
        ELSE cmpResult = TestResult(FALSE, DiagnosticOf(MinOf(D), cmpActual, cmpExpected))

\* a comparison of a pair that differs in end, text and a group, not in start
C4_Witness ==
    /\ cmpResult # NoneV
    /\ {2, 3} \subseteq DifferingFields(cmpActual, cmpExpected)
    /\ 1 \notin DifferingFields(cmpActual, cmpExpected)
    /\ \E k \in DifferingFields(cmpActual, cmpExpected) : k > 4
    /\ ~cmpResult.passed
    /\ cmpResult.message[1] = "End position mismatch"

\* a group value equals an expected entry the way the claim says: a group
\* that did not participate only the absent marker, a text only the same text
GroupAgrees(actual_group, expected_group) ==
    IF actual_group = NoneV THEN expected_group = NoneV
    ELSE expected_group # NoneV /\ expected_group.some = actual_group.some

\* C5: without a "groups" key in the expectation the result depends only on
\* start, end and matched text (any other captured groups give the same
\* result); with the key, and start, end, text and group count agreeing, the
\* comparison passes exactly when every group agrees, a group that did not
\* participate agreeing with null only.
C5_GroupsOnlyWhenDeclared ==
    cmpResult # NoneV =>
        /\ ~HasGroups(cmpExpected) =>
              /\ \A g \in GroupLists :
                    compare_match([cmpActual EXCEPT !.groups = g], cmpExpected)
                        = cmpResult
              /\ cmpResult.passed <=> (/\ cmpActual.start = cmpExpected.start
                                       /\ cmpActual.end = cmpExpected.end
                                       /\ cmpActual.group0 = cmpExpected.match)
        /\ (/\ HasGroups(cmpExpected)
            /\ DifferingFields(cmpActual, cmpExpected) \cap {1, 2, 3, 4} = {}) =>
              (cmpResult.passed <=>
                  \A i \in 1..Len(cmpActual.groups) :
                      GroupAgrees(cmpActual.groups[i], cmpExpected.groups[i]))

\* an expectation without "groups" passes against a match with two groups,
\* one of which did not participate
C5_Witness ==
    /\ cmpResult # NoneV
    /\ ~HasGroups(cmpExpected)
    /\ Len(cmpActual.groups) = 2
    /\ NoneV \in Range(cmpActual.groups)
    /\ cmpResult.passed

\* with "groups": a group that did not participate against an expected empty
\* text is a mismatch
C5_WitnessAbsentGroup ==
    /\ cmpResult # NoneV
    /\ HasGroups(cmpExpected)
    /\ cmpActual.groups = <<NoneV>>
    /\ cmpExpected.groups = <<opt(<<>>)>>
    /\ cmpResult = TestResult(FALSE, <<"Group mismatch", 1, opt(<<>>), NoneV>>)

-----------------------------------------------------------------------------
(* run_test's claims, under SpecTest *)

Called == pc # "call"

\* what re.compile makes of the called Case's pattern: "pattern", or the
\* exception it raises
CompileKind(call) ==
    re_compile(call.test_case.pattern, FlagValue(CaseFlags(call.test_case))).kind

\* the runner r after a Test counted as passed / as failed
CountedPassed(r) ==
    [r EXCEPT !.total_tests = r.total_tests + 1, !.passed_tests = r.passed_tests + 1]
CountedFailed(r) ==
    [r EXCEPT !.total_tests = r.total_tests + 1, !.failed_tests = r.failed_tests + 1]

\* the outcome C1 states for a pattern that does not compile
CompileFailureOutcome(call) ==
    /\ ~call.out.searched
    /\ call.out.compared = 0
    /\ IF Len(call.test.matches) = 0
       THEN /\ call.out.result = TestResult(TRUE, <<"Invalid pattern correctly rejected">>)
            /\ call.out.runner = CountedPassed(call.before)
       ELSE /\ call.out.result = TestResult(FALSE, <<"Failed to compile pattern">>)
            /\ call.out.runner = CountedFailed(call.before)

\* C1: whenever the Case's pattern fails to compile, for whatever reason, the
\* Test passes ("Invalid pattern correctly rejected", passed_tests + 1) when
\* no match is expected and fails ("Failed to compile pattern",
\* failed_tests + 1) otherwise, and neither the matcher nor the comparator runs.
C1_CompileFailureOutcome ==
    (Called /\ CompileKind(last) # "pattern") => CompileFailureOutcome(last)

\* C1, for the failures compile_pattern catches (re.error) only: this much
\* of the claim holds
C1_ReErrorOutcome ==
    (Called /\ CompileKind(last) = "re.error") => CompileFailureOutcome(last)

C1_ReErrorWitness ==
    /\ Called /\ CompileKind(last) = "re.error"
    /\ last.test_case.pattern = P_set /\ Len(last.test.matches) = 2
    /\ failed_tests = 1

\* C6: when the pattern compiles, the matches found are those of the Case's
\* search mode; a count different from the expected count fails the Test with
\* "Match count mismatch" and no comparison; otherwise the pairs are compared
\* in order, the lowest mismatching index i fails the Test with "Match i: ..."
\* and ends the comparison, and the Test passes exactly when no pair
\* mismatches.
C6_CountThenPairwise ==
    (Called /\ CompileKind(last) = "pattern") =>
        LET flags == CaseFlags(last.test_case)
            actual == last.out.actual
            expected == last.test.matches
            n == Len(expected)
            bad == {i \in 0..(n - 1) :
                       ~compare_match(actual[i + 1], expected[i + 1]).passed}
        IN  /\ ~last.out.raised
            /\ last.out.searched
            /\ actual = find_matches(re_compile(last.test_case.pattern, FlagValue(flags)),
                                     last.test.input, "g" \in Range(flags))
            /\ IF Len(actual) # n
               THEN /\ last.out.result =
                          TestResult(FALSE, <<"Match count mismatch", n, Len(actual)>>)
                    /\ last.out.compared = 0
               ELSE IF bad = {}
               THEN /\ last.out.result = TestResult(TRUE, <<>>)
                    /\ last.out.compared = n
               ELSE /\ last.out.result =
                          TestResult(FALSE,
                              <<"Match", MinOf(bad),
                                compare_match(actual[MinOf(bad) + 1],
                                              expected[MinOf(bad) + 1]).message>>)
                    /\ last.out.compared = MinOf(bad) + 1

\* two matches found, two expected, both pairs mismatch: "Match 0" is reported
\* after one comparison
C6_Witness ==
    /\ Called /\ CompileKind(last) = "pattern"
    /\ Len(last.out.actual) = 2 /\ Len(last.test.matches) = 2
    /\ \A i \in 1..2 : ~compare_match(last.out.actual[i], last.test.matches[i]).passed
    /\ ~last.out.result.passed
    /\ last.out.result.message[1] = "Match" /\ last.out.result.message[2] = 0
    /\ last.out.compared = 1

\* C7: pattern and data placeholders are translated before compiling and
\* matching: the Test with pattern @[hex:41]@[hex:42], input
\* @[hex:41]@[hex:42] and the one expected match {0, 2, "AB"} passes.
C7_HexPlaceholdersPass ==
    (/\ Called
     /\ last.test_case.pattern = P_hex
     /\ last.test.input = I_hex
     /\ last.test.matches = <<EM(0, 2, S_AB)>>) =>
        (~last.out.raised /\ last.out.result.passed)

\* the compiler option a flag character stands for
OptionOf(ch) ==
    CASE ch = "i" -> "IGNORECASE" [] ch = "m" -> "MULTILINE" [] ch = "s" -> "DOTALL"
      [] ch = "x" -> "VERBOSE" [] OTHER -> "UNICODE"

CompilerFlags == {"i", "m", "s", "x", "u"}

\* the flags text with each known character once, in a fixed order, and
\* nothing else
NormalFlags(flags) ==
    LET one(ch) == IF ch \in Range(flags) THEN <<ch>> ELSE <<>> IN
    one("g") \o one("i") \o one("m") \o one("s") \o one("u") \o one("x")

MatchesAt(pat, s, k) == MatchFrom(pat, s, 1, k).ok

\* where the scan goes on after the match m
ResumeAt(m) == IF m.end > m.start THEN m.end ELSE m.end + 1

\* ms is the list of all non-overlapping matches of pat in s, left to right
AllNonOverlapping(pat, s, ms) ==
    /\ \A k \in 1..Len(ms) :
          /\ ms[k].start \in 0..Len(s)
          /\ MatchesAt(pat, s, ms[k].start)
          /\ ms[k] = MatchObject(pat, s, ms[k].start,
                                 MatchFrom(pat, s, 1, ms[k].start).lens)
    /\ \A k \in 1..(Len(ms) - 1) : ms[k + 1].start >= ResumeAt(ms[k])
    /\ \A q \in 0..Len(s) :
          MatchesAt(pat, s, q) =>
              \E k \in 1..Len(ms) : ms[k].start <= q /\ (q = ms[k].start \/ q < ResumeAt(ms[k]))

\* C9: 'g' is not among the options handed to the compiler (these are the
\* options of the known characters i m s x u in the flags, whatever else the
\* flags hold); with 'g' the matches found are all non-overlapping matches
\* left to right, without 'g' none or the first of these; and the call does
\* what it does with the flags stripped of unknown and repeated characters.
C9_GlobalSelectsSearchMode ==
    Called =>
        LET flags == CaseFlags(last.test_case)
            options == FlagValue(flags)
            compiled == re_compile(last.test_case.pattern, options)
        IN  /\ options = {OptionOf(ch) : ch \in Range(flags) \cap CompilerFlags}
            /\ compiled.kind = "pattern" =>
                  LET global == find_matches(compiled, last.test.input, TRUE) IN
                  /\ AllNonOverlapping(compiled, last.test.input, global)
                  /\ last.out.actual =
                        IF "g" \in Range(flags) THEN global
                        ELSE IF global = <<>> THEN <<>> ELSE <<global[1]>>
            /\ last.out = run_test(last.before,
                                   Case(last.test_case.pattern, NormalFlags(flags),
                                        last.test_case.tests),
                                   last.test)

\* flags "zgg": both matches of a+ in "aa ba" are found and the Test passes
C9_Witness ==
    /\ Called
    /\ CaseFlags(last.test_case) = <<"z", "g", "g">>
    /\ last.test_case.pattern = P_aPlus /\ last.test.input = I_aaba
    /\ Len(last.out.actual) = 2
    /\ last.out.result.passed

-----------------------------------------------------------------------------
(* validate_suite.py: JSON values, validate_test_file *)

JStr(s) == [t |-> "str", s |-> s]
JInt(n) == [t |-> "int", n |-> n]
JList(items) == [t |-> "list", items |-> items]
JDict(fields) == [t |-> "dict", fields |-> fields]
JNull == [t |-> "null"]

\* field in obj
Has(obj, field) == field \in DOMAIN obj.fields
Get(obj, field) == obj.fields[field]

Whitespace == {" "}
\* not s.strip()
StripsToEmpty(s) == \A k \in 1..Len(s) : s[k] \in Whitespace

\* an error message with the prefix it is reported under: at = <<>> (the
\* file), <<idx>> (Test case idx), <<idx, test_idx>>, <<idx, test_idx, match_idx>>
Err(at, msg) == [at |-> at, msg |-> msg]

AppendIf(errors, cond, e) == IF cond THEN Append(errors, e) ELSE errors

\* for field in required: if field not in obj: errors.append(...)
RECURSIVE MissingFields(_, _, _, _)
MissingFields(errors, obj, required, at) ==
    IF required = <<>> THEN errors
    ELSE MissingFields(AppendIf(errors, ~Has(obj, Head(required)),
                                Err(at, <<"Missing required field", Head(required)>>)),
                       obj, Tail(required), at)

\* the checks of "start" or "end" of a match: an integer, not negative
OffsetErrors(errors, match, field, at) ==
    IF ~Has(match, field) THEN errors
    ELSE IF Get(match, field).t # "int"
    THEN Append(errors, Err(at, <<"must be an integer", field>>))
    ELSE IF Get(match, field).n < 0
    THEN Append(errors, Err(at, <<"must be non-negative", field>>))
    ELSE errors

\* the body of the loop over test["matches"]: what it appends to errors
ValidateMatch(match, at) ==
    IF match.t # "dict" THEN <<Err(at, <<"Must be an object">>)>>
    ELSE LET e1 == MissingFields(<<>>, match, <<"start", "end", "match">>, at)
             e2 == OffsetErrors(e1, match, "start", at)
             e3 == OffsetErrors(e2, match, "end", at)
             e4 == AppendIf(e3, /\ Has(match, "start") /\ Has(match, "end")
                                /\ Get(match, "start").t = "int"
                                /\ Get(match, "end").t = "int"
                                /\ Get(match, "end").n < Get(match, "start").n,
                            Err(at, <<"'end' must be >= 'start'">>))
             e5 == AppendIf(e4, Has(match, "match") /\ Get(match, "match").t # "str",
                            Err(at, <<"must be a string", "match">>))
         IN  AppendIf(e5, Has(match, "groups") /\ Get(match, "groups").t # "list",
                      Err(at, <<"must be an array", "groups">>))

\* for match_idx, match in enumerate(test["matches"]), from index k: what
\* the iterations append to errors, in order
RECURSIVE ValidateMatches(_, _, _)
ValidateMatches(matches, at, k) ==
    IF k >= Len(matches) THEN <<>>
    ELSE ValidateMatch(matches[k + 1], Append(at, k))
         \o ValidateMatches(matches, at, k + 1)

\* the body of the loop over test_case["tests"]: what it appends to errors
ValidateTest(test, at) ==
    IF test.t # "dict" THEN <<Err(at, <<"Must be an object">>)>>
    ELSE LET e1 == MissingFields(<<>>, test, <<"description", "input", "matches">>, at)
             e2 == AppendIf(e1, Has(test, "description")
                                /\ Get(test, "description").t # "str",
                            Err(at, <<"must be a string", "description">>))
             e3 == AppendIf(e2, Has(test, "input") /\ Get(test, "input").t # "str",
                            Err(at, <<"must be a string", "input">>))
         IN  IF ~Has(test, "matches") THEN e3
             ELSE IF Get(test, "matches").t # "list"
             THEN Append(e3, Err(at, <<"must be an array", "matches">>))
             ELSE e3 \o ValidateMatches(Get(test, "matches").items, at, 0)

\* for test_idx, test in enumerate(test_case["tests"]), from index k
RECURSIVE ValidateTests(_, _, _)
ValidateTests(tests, at, k) ==
    IF k >= Len(tests) THEN <<>>
    ELSE ValidateTest(tests[k + 1], Append(at, k)) \o ValidateTests(tests, at, k + 1)

\* the body of the loop over the file's Cases: what it appends to errors
ValidateCase(test_case, at) ==
    IF test_case.t # "dict" THEN <<Err(at, <<"Must be an object">>)>>
    ELSE LET e1 == MissingFields(<<>>, test_case,
                                 <<"description", "pattern", "tests">>, at)
             e2 == IF ~Has(test_case, "description") THEN e1
                   ELSE IF Get(test_case, "description").t # "str"
                   THEN Append(e1, Err(at, <<"must be a string", "description">>))
                   ELSE IF StripsToEmpty(Get(test_case, "description").s)
                   THEN Append(e1, Err(at, <<"'description' cannot be empty">>))
                   ELSE e1
             e3 == AppendIf(e2, Has(test_case, "pattern")
                                /\ Get(test_case, "pattern").t # "str",
                            Err(at, <<"must be a string", "pattern">>))
             e4 == AppendIf(e3, Has(test_case, "flags")
                                /\ Get(test_case, "flags").t # "str",
                            Err(at, <<"must be a string", "flags">>))
         IN  IF ~Has(test_case, "tests") THEN e4
             ELSE IF Get(test_case, "tests").t # "list"
             THEN Append(e4, Err(at, <<"must be an array", "tests">>))
             ELSE IF Len(Get(test_case, "tests").items) = 0
             THEN Append(e4, Err(at, <<"'tests' array cannot be empty">>))
             ELSE e4 \o ValidateTests(Get(test_case, "tests").items, at, 0)

\* the loop over the Cases that ends at the first Case with an error
RECURSIVE ValidateCases_stopAtFirst(_, _)
ValidateCases_stopAtFirst(data, k) ==
    IF k >= Len(data) THEN <<>>
    ELSE LET errors == ValidateCase(data[k + 1], <<k>>) IN
         IF errors # <<>> THEN errors
         ELSE ValidateCases_stopAtFirst(data, k + 1)

\* for idx, test_case in enumerate(data), from index k: what the iterations
\* append to errors, in order
RECURSIVE ValidateCases(_, _)
ValidateCases(data, k) ==
    IF k >= Len(data) THEN <<>>
    ELSE ValidateCase(data[k + 1], <<k>>) \o ValidateCases(data, k + 1)

\* A suite file on disk: kind "json" with the value json.load returns,
\* "invalid_json" (JSONDecodeError), "unreadable" (any other exception)
validate_test_file(f) ==
    IF f.kind = "invalid_json" THEN <<Err(<<>>, <<"Invalid JSON">>)>>
    ELSE IF f.kind = "unreadable" THEN <<Err(<<>>, <<"Error reading file">>)>>
    ELSE IF f.data.t # "list" THEN <<Err(<<>>, <<"Root element must be an array">>)>>
    ELSE ValidateCases(f.data.items, 0)

-----------------------------------------------------------------------------
(* The suite files the validator is run on *)

D_ok == <<"d">>
D_blank == <<" ", " ">>

With(fields, key, value) ==
    [f \in DOMAIN fields \cup {key} |-> IF f = key THEN value ELSE fields[f]]
Without(fields, key) == [f \in DOMAIN fields \ {key} |-> fields[f]]

GoodMatch == [start |-> JInt(0), end |-> JInt(1), match |-> JStr(S_a)]
GoodTest(matches) ==
    [description |-> JStr(D_ok), input |-> JStr(S_a), matches |-> JList(matches)]
GoodCase(tests) ==
    [description |-> JStr(D_ok), pattern |-> JStr(P_aPlus), tests |-> JList(tests)]

\* a valid Case: two Tests, expected matches with and without groups
V_good ==
    JDict(With(GoodCase(<<JDict(GoodTest(<<>>)),
                          JDict(GoodTest(<<JDict(GoodMatch),
                                           JDict(With(GoodMatch, "groups",
                                                      JList(<<JStr(S_a), JNull>>)))>>))>>),
               "flags", JStr(<<"g">>)))
\* a Case that is no object
V_notObject == JStr(D_ok)
\* four violations in the Case's own fields
V_caseFields ==
    JDict([description |-> JStr(D_blank), flags |-> JInt(1), tests |-> JList(<<>>)])
\* wrong types in the Case's own fields ("tests" is no array)
V_caseTypes ==
    JDict([description |-> JInt(0), pattern |-> JNull, tests |-> JStr(S_a)])
\* violations in two Tests of one Case
V_tests ==
    JDict(GoodCase(<<JInt(7),
                     JDict([description |-> JInt(0), matches |-> JStr(S_a)]),
                     JDict(Without(GoodTest(<<>>), "matches")),
                     JDict(With(GoodTest(<<>>), "input", JNull))>>))
\* violations in the expected matches of a Test, after a valid Test
V_matches ==
    JDict(GoodCase(<<JDict(GoodTest(<<JDict(GoodMatch)>>)),
                     JDict(GoodTest(<<JNull,
                                      JDict([start |-> JInt(-1), end |-> JInt(-2),
                                             match |-> JInt(0), groups |-> JStr(S_a)]),
                                      JDict([groups |-> JList(<<>>)]),
                                      JDict([start |-> JStr(S_a), end |-> JInt(0),
                                             match |-> JStr(S_a)]),
                                      JDict([start |-> JInt(2), end |-> JInt(1),
                                             match |-> JStr(S_a)]),
                                      JDict([start |-> JInt(0), end |-> JNull,
                                             match |-> JStr(S_a)])>>))>>))

\* the Cases the files of a run are put together from
VCases == {V_good, V_caseFields, V_tests, V_matches}

MaxVCases == 2
MaxVFiles == 2

\* what a suite file of a validator run may hold
VFiles ==
    {[kind |-> "invalid_json"], [kind |-> "unreadable"],
     [kind |-> "json", data |-> JDict(GoodCase(<<>>))],
     [kind |-> "json", data |-> JList(<<V_notObject, V_caseTypes>>)]}
    \cup {[kind |-> "json", data |-> JList(cases)] : cases \in SeqsUpTo(VCases, MaxVCases)}

-----
(* What there is to report in a file: the set of its violations of the     *)
(* schema's rules, each with the place it is reported under                *)

Indices(items) == 0..(Len(items) - 1)

MissingOf(obj, required, at) ==
    {Err(at, <<"Missing required field", f>>) : f \in required \ DOMAIN obj.fields}

NotOfType(obj, fields, type, msg, at) ==
    {Err(at, <<msg, f>>) : f \in {g \in fields \cap DOMAIN obj.fields :
                                    obj.fields[g].t # type}}

IsIntField(obj, f) == Has(obj, f) /\ Get(obj, f).t = "int"

MatchViolations(match, at) ==
    IF match.t # "dict" THEN {Err(at, <<"Must be an object">>)}
    ELSE MissingOf(match, {"start", "end", "match"}, at)
         \cup NotOfType(match, {"start", "end"}, "int", "must be an integer", at)
         \cup {Err(at, <<"must be non-negative", f>>) :
                  f \in {g \in {"start", "end"} :
                            IsIntField(match, g) /\ Get(match, g).n < 0}}
         \cup (IF /\ IsIntField(match, "start") /\ IsIntField(match, "end")
                  /\ Get(match, "end").n < Get(match, "start").n
               THEN {Err(at, <<"'end' must be >= 'start'">>)} ELSE {})
         \cup NotOfType(match, {"match"}, "str", "must be a string", at)
         \cup NotOfType(match, {"groups"}, "list", "must be an array", at)

TestViolations(test, at) ==
    IF test.t # "dict" THEN {Err(at, <<"Must be an object">>)}
    ELSE MissingOf(test, {"description", "input", "matches"}, at)
         \cup NotOfType(test, {"description", "input"}, "str", "must be a string", at)
         \cup NotOfType(test, {"matches"}, "list", "must be an array", at)
         \cup (IF Has(test, "matches") /\ Get(test, "matches").t = "list"
               THEN UNION {MatchViolations(Get(test, "matches").items[k + 1],
                                           Append(at, k)) :
                              k \in Indices(Get(test, "matches").items)}
               ELSE {})

CaseViolations(test_case, at) ==
    IF test_case.t # "dict" THEN {Err(at, <<"Must be an object">>)}
    ELSE MissingOf(test_case, {"description", "pattern", "tests"}, at)
         \cup NotOfType(test_case, {"description", "pattern", "flags"}, "str",
                        "must be a string", at)
         \cup (IF /\ Has(test_case, "description")
                  /\ Get(test_case, "description").t = "str"
                  /\ StripsToEmpty(Get(test_case, "description").s)
               THEN {Err(at, <<"'description' cannot be empty">>)} ELSE {})
         \cup NotOfType(test_case, {"tests"}, "list", "must be an array", at)
         \cup (IF Has(test_case, "tests") /\ Get(test_case, "tests").t = "list"
               THEN IF Get(test_case, "tests").items = <<>>
                    THEN {Err(at, <<"'tests' array cannot be empty">>)}
                    ELSE UNION {TestViolations(Get(test_case, "tests").items[k + 1],
                                               Append(at, k)) :
                                   k \in Indices(Get(test_case, "tests").items)}
               ELSE {})

Violations(f) ==
    IF f.kind = "invalid_json" THEN {Err(<<>>, <<"Invalid JSON">>)}
    ELSE IF f.kind = "unreadable" THEN {Err(<<>>, <<"Error reading file">>)}
    ELSE IF f.data.t # "list" THEN {Err(<<>>, <<"Root element must be an array">>)}
    ELSE UNION {CaseViolations(f.data.items[k + 1], <<k>>) : k \in Indices(f.data.items)}

-----
(* validate_suite.py: main *)

InitV ==
    /\ vDirExists \in BOOLEAN
    /\ vN \in 0..MaxVFiles
    /\ vpc = "main" /\ vi = 1
    /\ vFile = NoneV /\ vErrors = <<>> /\ vViolations = 0
    /\ total_errors = 0 /\ files_with_errors = 0 /\ vExit = -1
    /\ CmpIdle
    /\ dirExists = TRUE /\ mode = "all" /\ fileExists = TRUE /\ nFiles = 0
    /\ file = <<>> /\ testsLoaded = 0
    /\ pc = "idle" /\ fi = 1 /\ ci = 1 /\ ti = 1
    /\ total_tests = 0 /\ passed_tests = 0 /\ failed_tests = 0 /\ skipped_tests = 0
    /\ file_passed = TRUE /\ passed_files = 0 /\ failed_files = 0
    /\ exitCode = -1 /\ last = NoneV

\* main: the tests directory is missing
VMainNoTestsDir ==
    /\ vpc = "main" /\ ~vDirExists
    /\ vpc' = "exit" /\ vExit' = 1
    /\ UNCHANGED <<vDirExists, vN, vi, vFile, vErrors, total_errors,
                   files_with_errors, vViolations>>
    /\ UNCHANGED <<runnerVars, cmpVars>>

\* main: no *.json file under the tests directory
VMainNoFiles ==
    /\ vpc = "main" /\ vDirExists /\ vN = 0
    /\ vpc' = "exit" /\ vExit' = 0
    /\ UNCHANGED <<vDirExists, vN, vi, vFile, vErrors, total_errors,
                   files_with_errors, vViolations>>
    /\ UNCHANGED <<runnerVars, cmpVars>>

\* main: total_errors = 0, files_with_errors = 0, and into the loop
VMainStart ==
    /\ vpc = "main" /\ vDirExists /\ vN > 0
    /\ vpc' = "loop" /\ total_errors' = 0 /\ files_with_errors' = 0
    /\ UNCHANGED <<vDirExists, vN, vi, vFile, vErrors, vViolations, vExit>>
    /\ UNCHANGED <<runnerVars, cmpVars>>

\* main: one iteration of the loop over sorted(test_files): the file is read
\* and validated, its errors are counted and printed
VValidateFile ==
    /\ vpc = "loop" /\ vi <= vN
    /\ \E f \in VFiles :
        LET errors == validate_test_file(f) IN
        /\ vFile' = f
        /\ vErrors' = errors
        /\ vViolations' = vViolations + Cardinality(Violations(f))
        /\ IF errors # <<>>
           THEN /\ files_with_errors' = files_with_errors + 1
                /\ total_errors' = total_errors + Len(errors)
           ELSE UNCHANGED <<files_with_errors, total_errors>>
    /\ vi' = vi + 1
    /\ UNCHANGED <<vDirExists, vN, vpc, vExit>>
    /\ UNCHANGED <<runnerVars, cmpVars>>

\* main after the loop: return 0 if total_errors == 0, else 1
VSummary ==
    /\ vpc = "loop" /\ vi > vN
    /\ vpc' = "exit"
    /\ vExit' = IF total_errors = 0 THEN 0 ELSE 1
    /\ UNCHANGED <<vDirExists, vN, vi, vFile, vErrors, total_errors,
                   files_with_errors, vViolations>>
    /\ UNCHANGED <<runnerVars, cmpVars>>

NextV ==
    \/ VMainNoTestsDir
    \/ VMainNoFiles
    \/ VMainStart
    \/ VValidateFile
    \/ VSummary

SpecV == InitV /\ [][NextV]_vars

-----------------------------------------------------------------------------
(* The validator's claim, under SpecV *)

\* every violation of the file validated last is among the errors returned
\* for it, once each, and nothing else is
AllViolationsCollected ==
    vFile # NoneV =>
        /\ Range(vErrors) = Violations(vFile)
        /\ Len(vErrors) = Cardinality(Violations(vFile))

\* every discovered file was validated, whatever the files before it held
AllFilesValidated == vi = vN + 1 /\ total_errors = vViolations

\* C8 as stated: every violation of a file is collected, a file with
\* violations does not keep the remaining files from being validated, and
\* the validator exits non-zero if and only if some file has a violation.
C8_ExitNonZeroIffViolation ==
    /\ AllViolationsCollected
    /\ vpc = "exit" => (vExit # 0 <=> vViolations > 0)

\* C8, amended: every violation of a file is collected; when the tests
\* directory exists every discovered file is validated, whatever the files
\* before it held, and the validator exits non-zero if and only if some file
\* has a violation; when the tests directory is missing it exits 1 and
\* validates nothing.
C8_Amended ==
    /\ AllViolationsCollected
    /\ (vpc = "exit" /\ vDirExists) =>
          (AllFilesValidated /\ (vExit # 0 <=> vViolations > 0))
    /\ (vpc = "exit" /\ ~vDirExists) => (vExit = 1 /\ vFile = NoneV)

\* two files: the first had violations, the second, with ten violations in
\* two Cases, was validated all the same, and the exit code is 1
C8_Witness ==
    /\ vpc = "exit" /\ vDirExists /\ vN = 2 /\ vi = 3
    /\ vFile = [kind |-> "json", data |-> JList(<<V_caseFields, V_tests>>)]
    /\ Len(vErrors) = 10
    /\ files_with_errors = 2
    /\ total_errors > Len(vErrors)
    /\ vExit = 1

====
